---- MODULE Spec2Model ----
(***************************************************************************)
(* Camera stream manager (lib/cameraStreamManager.ts) and the QR scanner   *)
(* widgets of Quest_Deployment, as state machines over the event loop:     *)
(* one action per synchronous run of code between two suspension points.   *)
(***************************************************************************)
EXTENDS Integers, FiniteSets, Sequences, TLC

(***************************************************************************)
(* Bounds of the model                                                     *)
(***************************************************************************)
\* concurrent consumers of the camera stream manager
NCallers == 3
\* stream objects the browser hands out in one run
MaxStreams == 2

\* values initializationAttempt.current may take in one run of the widget
MaxAttempt == 5

\* runs of initScanner in one run of the base widget
MaxRuns == 3

Callers == 1..NCallers
StreamIds == 1..MaxStreams

\* constraintOptions.length of getCameraStream
NumOptions == 5

(***************************************************************************)
(* State of the camera stream manager                                      *)
(***************************************************************************)
VARIABLES
  stream,          \* module variable stream: 0 is null, else a stream id
  usageCount,      \* module variable usageCount
  isInitializing,  \* module variable isInitializing
  mediaSupported,  \* navigator.mediaDevices.getUserMedia exists
  tracks,          \* per stream object: the state of its tracks
  nextStream,      \* next stream object the browser creates
  pc,              \* per caller: where its getCameraStream call stands
  opt,             \* per caller: loop index i + 1 of the pending getUserMedia
  got,             \* per caller: the stream it was handed and still uses (0: none)
  countAtCall,     \* per caller: usageCount when its pending call began
  opened,          \* per caller: the streams its pending call has opened
  waitedOn,        \* per caller: the caller whose acquisition it waited on (0: none)
  ev               \* the call the last step completed, and for a call that
                   \* threw, the streams it had opened and the usageCount
                   \* it had found

mgrVars == <<stream, usageCount, isInitializing, mediaSupported, tracks,
             nextStream, pc, opt, got, countAtCall, opened, waitedOn, ev>>

(***************************************************************************)
(* State of the scanner widget with attempt identifiers                    *)
(* (src/unnamed/part_002)                                                  *)
(***************************************************************************)
VARIABLES
  widget,     \* props, React state and refs of the component: isActive,
              \* mounted (qrRef.current is set), isInitializing, error,
              \* scanner (scanner.current: 0 is null, else an engine),
              \* isCleaningUp, initializationAttempt, and effect: the
              \* currentAttempt of the effect run whose cleanup is registered
  engines,    \* per Html5Qrcode instance: its state, whether it was cleared,
              \* and the attempt whose start call it is running
  tasks,      \* per attempt: where its initScanner stands, the camera option
              \* it is trying, the engine its pending start or stop is on
  sc,         \* the running safeCleanup: its position, the engine of its
              \* pending stop, the attempt awaiting it (0: the unmount cleanup)
  staleActs,  \* what attempts did after they had been superseded
  calls,      \* per attempt: how many of its start calls resolved, and how
              \* often it invoked onScannerInit(true), onScannerInit(false)
              \* and onScanError
  wev         \* the caller's callback the last step invoked with its
              \* argument and what the argument was made from, or the
              \* change of props the step was

attemptVars == <<widget, engines, tasks, sc, staleActs, calls, wev>>

(***************************************************************************)
(* State of the base scanner widget                                        *)
(* (src/quest-app/src/components/ui/QRScanner.tsx)                         *)
(***************************************************************************)
VARIABLES
  base,      \* props, React state and refs of the component: isActive,
             \* mounted, isInitializing, scanner (scanner.current), cleanup
             \* (the last effect run returned its cleanup), runs (the
             \* initScanner runs so far)
  bEngines,  \* per Html5Qrcode instance: its state, whether it was cleared
  bTasks,    \* per initScanner run: where it stands, the engine its pending
             \* start or stop is on, and whether isActive became false
             \* while it was under way
  bStops,    \* engines whose stop(), called by an effect cleanup, is pending
  late,      \* callbacks a run invoked after such a deactivation
  bev        \* the caller's callback the last step invoked

baseVars == <<base, bEngines, bTasks, bStops, late, bev>>

(***************************************************************************)
(* State of the scanner widget with the isCleaningUp flag                  *)
(* (src/unnamed/part_001)                                                  *)
(***************************************************************************)
VARIABLES
  cleaning,  \* props, React state and refs of the component: isActive,
             \* mounted (qrRef.current is set), isInitializing, scanner
             \* (scanner.current), isCleaningUp, cleanup (the last effect run
             \* returned its cleanup), runs (the timers armed so far)
  cEngines,  \* per Html5Qrcode instance: its state, whether it was cleared,
             \* and the run whose start call set it scanning
  cTasks,    \* per effect run that armed the timer: where its initScanner is
  cStop,     \* the engine whose stop the cleanup awaits (0: none)
  cev        \* the caller's callback the last step invoked

cleaningVars == <<cleaning, cEngines, cTasks, cStop, cev>>

vars == <<mgrVars, attemptVars, baseVars, cleaningVars>>

NoEv == [op |-> "none", c |-> 0, opened |-> {}, before |-> 0]

AttemptIds == 1..MaxAttempt

\* part_002 lines 112-123: cameraOptions.length
NumCameraOptions == 5

\* part_002 lines 112-123: the facing mode constraint of each option
cameraOptions ==
  <<"environment", "ideal environment", "exact environment", "user", "undefined">>

\* part_002 line 24: values of the preferredCamera prop
Facings == {"environment", "user"}

\* part_002 line 138: cameraOptions[i] || { facingMode: preferredCamera }
StartConstraint(i, preferredCamera) ==
  IF cameraOptions[i] = "undefined" THEN preferredCamera ELSE cameraOptions[i]

RunIds == 1..MaxRuns

\* values a promise rejects with or a statement throws: an Error object or
\* a plain string, its text given by the fragments the widgets look for
NoError == [kind |-> "null", text |-> {}]
PermissionError == [kind |-> "Error", text |-> {"NotAllowedError", "Permission"}]
PermissionString == [kind |-> "string", text |-> {"NotAllowedError", "Permission"}]
NotReadableError == [kind |-> "Error", text |-> {"NotReadableError"}]
TypeError == [kind |-> "Error", text |-> {"TypeError"}]
ClearWhileScanning == [kind |-> "string", text |-> {"Cannot clear while scan is ongoing"}]
ContainerNotFound == [kind |-> "Error", text |-> {"QR scanner container not found"}]
AllOptionsFailed == [kind |-> "Error", text |-> {"All camera options failed"}]

\* what the start call of the engine rejects with
StartRejections == {PermissionError, PermissionString, NotReadableError}

\* decoded texts
Payloads == {"questA", "questB"}

NoCall == [cb |-> "none", arg |-> "none", by |-> 0, src |-> "none"]
NoCalls == [started |-> 0, ok |-> 0, fail |-> 0, err |-> 0]
NoRun == [pc |-> "none", e |-> 0, deact |-> FALSE]
NoTask == [pc |-> "none", i |-> 0, e |-> 0, facing |-> "none", lastError |-> NoError,
           perm |-> TRUE]
NoCleanup == [pc |-> "idle", e |-> 0, owner |-> 0]

\* part_002 lines 27-32: the component not activated, rendered by the page
\* (mounted) or not
AttemptRendered(mounted, p) ==
  /\ widget = [isActive |-> FALSE, mounted |-> mounted, isInitializing |-> FALSE,
               error |-> "null", scanner |-> 0, isCleaningUp |-> FALSE,
               initializationAttempt |-> 0, effect |-> 0, preferredCamera |-> p]
  /\ engines = [e \in AttemptIds |-> [state |-> "unused", cleared |-> FALSE, by |-> 0]]
  /\ tasks = [k \in AttemptIds |-> NoTask]
  /\ sc = NoCleanup
  /\ staleActs = {}
  /\ calls = [k \in AttemptIds |-> NoCalls]
  /\ wev = NoCall

\* part_002 line 24: the parent passes no preferredCamera
AttemptFresh(mounted) == AttemptRendered(mounted, "environment")

\* the component mounted and not activated
AttemptIdle == AttemptFresh(TRUE)

\* QRScanner.tsx lines 27-29: the component not activated, rendered by the
\* page (mounted) or not
BaseFresh(mounted) ==
  /\ base = [isActive |-> FALSE, mounted |-> mounted, isInitializing |-> FALSE,
             scanner |-> 0, cleanup |-> FALSE, runs |-> 0]
  /\ bEngines = [e \in RunIds |-> [state |-> "unused", cleared |-> FALSE, by |-> 0]]
  /\ bTasks = [r \in RunIds |-> NoRun]
  /\ bStops = {}
  /\ late = {}
  /\ bev = NoCall

\* the component mounted and not activated
BaseIdle == BaseFresh(TRUE)

NoInit == [pc |-> "none", e |-> 0]

\* part_001 lines 27-30: the component not activated, rendered by the page
\* (mounted) or not
CleaningFresh(mounted) ==
  /\ cleaning = [isActive |-> FALSE, mounted |-> mounted, isInitializing |-> FALSE,
                 scanner |-> 0, isCleaningUp |-> FALSE, cleanup |-> FALSE, runs |-> 0]
  /\ cEngines = [e \in RunIds |-> [state |-> "unused", cleared |-> FALSE, by |-> 0]]
  /\ cTasks = [r \in RunIds |-> NoInit]
  /\ cStop = 0
  /\ cev = NoCall

\* the component mounted and not activated
CleaningIdle == CleaningFresh(TRUE)

\* cameraStreamManager.ts lines 2-4
MgrIdle ==
  /\ stream = 0
  /\ usageCount = 0
  /\ isInitializing = FALSE
  /\ tracks = [s \in StreamIds |-> "unopened"]
  /\ nextStream = 1
  /\ pc = [c \in Callers |-> "idle"]
  /\ opt = [c \in Callers |-> 0]
  /\ got = [c \in Callers |-> 0]
  /\ countAtCall = [c \in Callers |-> 0]
  /\ opened = [c \in Callers |-> {}]
  /\ waitedOn = [c \in Callers |-> 0]
  /\ ev = NoEv

InitMgr ==
  /\ mediaSupported \in BOOLEAN
  /\ MgrIdle
  /\ AttemptIdle
  /\ BaseIdle
  /\ CleaningIdle

\* the base widget, with an idle manager
InitBase ==
  /\ mediaSupported = TRUE
  /\ MgrIdle
  /\ AttemptIdle
  /\ BaseIdle
  /\ CleaningIdle

\* a page that renders one of the two widgets
InitWidgets ==
  /\ mediaSupported = TRUE
  /\ MgrIdle
  /\ \E m \in BOOLEAN : AttemptFresh(m) /\ BaseFresh(~m)
  /\ CleaningFresh(FALSE)

\* the widget of part_001, with an idle manager
InitCleaning ==
  /\ mediaSupported = TRUE
  /\ MgrIdle
  /\ AttemptIdle
  /\ BaseIdle
  /\ CleaningIdle

\* the widget of part_002, with an idle manager
InitAttempt ==
  /\ mediaSupported = TRUE
  /\ MgrIdle
  /\ \E p \in Facings : AttemptRendered(TRUE, p)
  /\ BaseIdle
  /\ CleaningIdle

(***************************************************************************)
(* Streams.  A stream object is "live" (it has tracks and its first video  *)
(* track has readyState live), "dead" (it has tracks, the video track is   *)
(* missing or not live), "empty" (getTracks() is empty) or "stopped" (stop *)
(* was called on every one of its tracks).                                 *)
(***************************************************************************)
StreamKinds == {"live", "dead", "empty"}

\* mutant: the tracks of a stream are left running
StopTracksSkipped(t, s) == t

\* stream.getTracks().forEach(track => track.stop())
StopTracks(t, s) ==
  IF s = 0 \/ t[s] = "empty" THEN t ELSE [t EXCEPT ![s] = "stopped"]

AllTracksStopped(s) == tracks[s] \in {"stopped", "empty"}

(***************************************************************************)
(* getCameraStream                                                         *)
(***************************************************************************)
\* the caller whose acquisition is in flight (0: none)
Acquirer ==
  IF \E d \in Callers : pc[d] \in {"enum", "gum"}
    THEN CHOOSE d \in Callers : pc[d] \in {"enum", "gum"}
    ELSE 0

\* lines 123-124, reached with the stream already held: usageCount++; return
ReturnHeld(c) ==
  /\ usageCount' = usageCount + 1
  /\ pc' = [pc EXCEPT ![c] = "holding"]
  /\ got' = [got EXCEPT ![c] = stream]
  /\ ev' = [op |-> "return", c |-> c, opened |-> {}, before |-> 0]
  /\ UNCHANGED <<stream, isInitializing, tracks, nextStream, opt, waitedOn>>

\* mutant: the waiter forgets line 13 and always acquires for itself
WaiterReturnAcquires(c) ==
  /\ isInitializing' = TRUE
  /\ pc' = [pc EXCEPT ![c] = "enum"]
  /\ ev' = NoEv
  /\ UNCHANGED <<stream, usageCount, tracks, nextStream, opt, got, waitedOn>>

\* line 13: the waiter returns the held stream from inside the wait branch
WaiterReturn(c) ==
  /\ pc' = [pc EXCEPT ![c] = "holding"]
  /\ got' = [got EXCEPT ![c] = stream]
  /\ ev' = [op |-> "wake", c |-> c, opened |-> {}, before |-> 0]
  /\ UNCHANGED <<stream, usageCount, isInitializing, tracks, nextStream, opt, waitedOn>>

\* mutant: the busy flag is not raised
BeginInitNoFlag(c) ==
  /\ IF mediaSupported
       THEN /\ pc' = [pc EXCEPT ![c] = "enum"]
            /\ ev' = NoEv
            /\ UNCHANGED <<waitedOn, isInitializing>>
       ELSE /\ isInitializing' = FALSE
            /\ pc' = [pc EXCEPT ![c] = "idle"]
            /\ ev' = [op |-> "unsupported", c |-> c, opened |-> {}, before |-> usageCount]
            /\ waitedOn' = [waitedOn EXCEPT ![c] = 0]
  /\ UNCHANGED <<stream, usageCount, tracks, nextStream, opt, got>>

\* lines 16-27: isInitializing = true, the support check, then the await of
\* enumerateDevices; without getUserMedia the throw of line 21 passes through
\* the catch of 115 and the finally of 119 in the same run
BeginInit(c) ==
  /\ IF mediaSupported
       THEN /\ isInitializing' = TRUE
            /\ pc' = [pc EXCEPT ![c] = "enum"]
            /\ ev' = NoEv
            /\ UNCHANGED waitedOn
       ELSE /\ isInitializing' = FALSE
            /\ pc' = [pc EXCEPT ![c] = "idle"]
            /\ ev' = [op |-> "unsupported", c |-> c, opened |-> {}, before |-> usageCount]
            /\ waitedOn' = [waitedOn EXCEPT ![c] = 0]
  /\ UNCHANGED <<stream, usageCount, tracks, nextStream, opt, got>>

\* lines 8-12: isInitializing is true, the caller enters the wait loop
BeginWait(c) ==
  /\ pc' = [pc EXCEPT ![c] = "poll"]
  /\ waitedOn' = [waitedOn EXCEPT ![c] = Acquirer]
  /\ ev' = NoEv
  /\ UNCHANGED <<stream, usageCount, isInitializing, tracks, nextStream, opt, got>>

\* mutant: a call that finds a stream held opens another one
CallGetAlwaysOpens(c) ==
  /\ UNCHANGED <<attemptVars, baseVars, cleaningVars>>
  /\ pc[c] = "idle"
  /\ IF isInitializing THEN BeginWait(c) ELSE BeginInit(c)
  /\ countAtCall' = [countAtCall EXCEPT ![c] =
                       IF pc'[c] \in {"poll", "enum"} THEN usageCount ELSE 0]
  /\ UNCHANGED <<mediaSupported, opened>>

\* lines 6-17, the synchronous start of a call
CallGet(c) ==
  /\ UNCHANGED <<attemptVars, baseVars, cleaningVars>>
  /\ pc[c] = "idle"
  /\ IF isInitializing
       THEN BeginWait(c)
       ELSE IF stream # 0 THEN ReturnHeld(c) ELSE BeginInit(c)
  /\ countAtCall' = [countAtCall EXCEPT ![c] =
                       IF pc'[c] \in {"poll", "enum"} THEN usageCount ELSE 0]
  /\ UNCHANGED <<mediaSupported, opened>>

\* lines 10-17: a 100 ms timer of the wait loop fires and finds isInitializing
\* false (a firing that finds it true re-arms the timer and changes nothing)
PollWake(c) ==
  /\ UNCHANGED <<attemptVars, baseVars, cleaningVars>>
  /\ pc[c] = "poll"
  /\ ~isInitializing
  /\ IF stream # 0 THEN WaiterReturn(c) ELSE BeginInit(c)
  /\ countAtCall' = [countAtCall EXCEPT ![c] =
                       IF pc'[c] = "enum" THEN countAtCall[c] ELSE 0]
  /\ UNCHANGED <<mediaSupported, opened>>

\* lines 26-36 and the first iteration's getUserMedia call: the result of
\* enumerateDevices, a rejection included, only reaches the console
EnumDone(c) ==
  /\ UNCHANGED <<attemptVars, baseVars, cleaningVars>>
  /\ pc[c] = "enum"
  /\ pc' = [pc EXCEPT ![c] = "gum"]
  /\ opt' = [opt EXCEPT ![c] = 1]
  /\ ev' = NoEv
  /\ UNCHANGED <<stream, usageCount, isInitializing, mediaSupported, tracks, nextStream,
                 got, countAtCall, opened, waitedOn>>

\* lines 111-124 after the break of line 91: finally, usageCount++, return
AcquireSucceed(c, s) ==
  /\ isInitializing' = FALSE
  /\ usageCount' = usageCount + 1
  /\ pc' = [pc EXCEPT ![c] = "holding"]
  /\ opt' = [opt EXCEPT ![c] = 0]
  /\ got' = [got EXCEPT ![c] = s]
  /\ opened' = [opened EXCEPT ![c] = {}]
  /\ ev' = [op |-> "return", c |-> c, opened |-> {}, before |-> 0]
  /\ UNCHANGED waitedOn

\* mutant: the first failure of an option is raised to the caller
OptionFailedRaises(c, o) ==
  /\ isInitializing' = FALSE
  /\ pc' = [pc EXCEPT ![c] = "idle"]
  /\ opt' = [opt EXCEPT ![c] = 0]
  /\ opened' = [opened EXCEPT ![c] = {}]
  /\ waitedOn' = [waitedOn EXCEPT ![c] = 0]
  /\ ev' = [op |-> "reject", c |-> c, opened |-> o, before |-> countAtCall[c]]
  /\ UNCHANGED <<usageCount, got>>

\* lines 80 and 111-120 once option opt[c] has failed: the next option's
\* getUserMedia call, or after the last one the throw, the catch, the finally
OptionFailed(c, o) ==
  IF opt[c] < NumOptions
    THEN /\ opt' = [opt EXCEPT ![c] = opt[c] + 1]
         /\ opened' = [opened EXCEPT ![c] = o]
         /\ ev' = NoEv
         /\ UNCHANGED <<usageCount, isInitializing, pc, got, waitedOn>>
    ELSE /\ isInitializing' = FALSE
         /\ pc' = [pc EXCEPT ![c] = "idle"]
         /\ opt' = [opt EXCEPT ![c] = 0]
         /\ opened' = [opened EXCEPT ![c] = {}]
         /\ waitedOn' = [waitedOn EXCEPT ![c] = 0]
         /\ ev' = [op |-> "reject", c |-> c, opened |-> o, before |-> countAtCall[c]]
         /\ UNCHANGED <<usageCount, got>>

\* mutant: a stream without a live video track is stopped but stays in the
\* stream reference
GumResolveKeepsDead(c, k) ==
  /\ UNCHANGED <<attemptVars, baseVars, cleaningVars>>
  /\ pc[c] = "gum"
  /\ nextStream <= MaxStreams
  /\ LET s == nextStream IN
       /\ nextStream' = s + 1
       /\ stream' = s
       /\ IF k = "live"
            THEN /\ tracks' = [tracks EXCEPT ![s] = "live"]
                 /\ AcquireSucceed(c, s)
            ELSE /\ tracks' = StopTracks([tracks EXCEPT ![s] = k], s)
                 /\ OptionFailed(c, opened[c] \cup {s})
  /\ countAtCall' = [countAtCall EXCEPT ![c] =
                       IF pc'[c] = "gum" THEN countAtCall[c] ELSE 0]
  /\ UNCHANGED mediaSupported

\* lines 83-99: getUserMedia resolves with a stream object of kind k
GumResolve(c, k) ==
  /\ UNCHANGED <<attemptVars, baseVars, cleaningVars>>
  /\ pc[c] = "gum"
  /\ nextStream <= MaxStreams
  /\ LET s == nextStream IN
       /\ nextStream' = s + 1
       /\ IF k = "live"
            THEN /\ stream' = s
                 /\ tracks' = [tracks EXCEPT ![s] = "live"]
                 /\ AcquireSucceed(c, s)
            ELSE /\ stream' = 0
                 /\ tracks' = StopTracks([tracks EXCEPT ![s] = k], s)
                 /\ OptionFailed(c, opened[c] \cup {s})
  /\ countAtCall' = [countAtCall EXCEPT ![c] =
                       IF pc'[c] = "gum" THEN countAtCall[c] ELSE 0]
  /\ UNCHANGED mediaSupported

\* lines 100-108: getUserMedia rejects
GumReject(c) ==
  /\ UNCHANGED <<attemptVars, baseVars, cleaningVars>>
  /\ pc[c] = "gum"
  /\ tracks' = StopTracks(tracks, stream)
  /\ stream' = 0
  /\ OptionFailed(c, opened[c])
  /\ countAtCall' = [countAtCall EXCEPT ![c] =
                       IF pc'[c] = "gum" THEN countAtCall[c] ELSE 0]
  /\ UNCHANGED <<mediaSupported, nextStream>>

(***************************************************************************)
(* releaseCameraStream                                                     *)
(***************************************************************************)
Max(a, b) == IF a >= b THEN a ELSE b

\* mutant: the stream is stopped on every release, whatever the count
releaseAlwaysStops ==
  /\ usageCount' = Max(usageCount - 1, 0)
  /\ IF stream # 0
       THEN /\ tracks' = StopTracks(tracks, stream)
            /\ stream' = 0
       ELSE UNCHANGED <<stream, tracks>>
  /\ UNCHANGED <<isInitializing, mediaSupported, nextStream, opt, countAtCall, opened>>

\* mutant: the count is not floored at 0
releaseNoFloor ==
  /\ usageCount' = usageCount - 1
  /\ IF usageCount' = 0 /\ stream # 0
       THEN /\ tracks' = StopTracks(tracks, stream)
            /\ stream' = 0
       ELSE UNCHANGED <<stream, tracks>>
  /\ UNCHANGED <<isInitializing, mediaSupported, nextStream, opt, countAtCall, opened>>

\* mutant: at count 0 the tracks are stopped but the reference is kept
releaseKeepsStream ==
  /\ usageCount' = Max(usageCount - 1, 0)
  /\ IF usageCount' = 0 /\ stream # 0
       THEN tracks' = StopTracks(tracks, stream)
       ELSE UNCHANGED tracks
  /\ UNCHANGED <<stream, isInitializing, mediaSupported, nextStream, opt, countAtCall, opened>>

\* lines 127-141
releaseCameraStream ==
  /\ usageCount' = Max(usageCount - 1, 0)
  /\ IF usageCount' = 0 /\ stream # 0
       THEN /\ tracks' = StopTracks(tracks, stream)
            /\ stream' = 0
       ELSE UNCHANGED <<stream, tracks>>
  /\ UNCHANGED <<isInitializing, mediaSupported, nextStream, opt, countAtCall, opened>>

\* the one release a consumer owes for its successful getCameraStream
Release(c) ==
  /\ UNCHANGED <<attemptVars, baseVars, cleaningVars>>
  /\ pc[c] = "holding"
  /\ releaseCameraStream
  /\ pc' = [pc EXCEPT ![c] = "idle"]
  /\ got' = [got EXCEPT ![c] = 0]
  /\ waitedOn' = [waitedOn EXCEPT ![c] = 0]
  /\ ev' = [op |-> "release", c |-> c, opened |-> {}, before |-> 0]

\* a release nobody owes: a consumer that holds nothing calls it
StrayRelease(c) ==
  /\ UNCHANGED <<attemptVars, baseVars, cleaningVars>>
  /\ pc[c] = "idle"
  /\ releaseCameraStream
  /\ ev' = [op |-> "strayrelease", c |-> c, opened |-> {}, before |-> 0]
  /\ UNCHANGED <<pc, got, waitedOn>>

\* the device ends the video track of an open stream (readyState "ended")
TrackEnded(s) ==
  /\ UNCHANGED <<attemptVars, baseVars, cleaningVars>>
  /\ tracks[s] = "live"
  /\ tracks' = [tracks EXCEPT ![s] = "dead"]
  /\ ev' = NoEv
  /\ UNCHANGED <<stream, usageCount, isInitializing, mediaSupported, nextStream, pc, opt,
                 got, countAtCall, opened, waitedOn>>

\* consumers that pair every successful acquire with exactly one release
NextPaired ==
  \/ \E c \in Callers : CallGet(c)
  \/ \E c \in Callers : PollWake(c)
  \/ \E c \in Callers : EnumDone(c)
  \/ \E c \in Callers, k \in StreamKinds : GumResolve(c, k)
  \/ \E c \in Callers : GumReject(c)
  \/ \E c \in Callers : Release(c)
  \/ \E s \in StreamIds : TrackEnded(s)

\* any consumers
NextMgr ==
  \/ NextPaired
  \/ \E c \in Callers : StrayRelease(c)

SpecPaired == InitMgr /\ [][NextPaired]_vars
SpecMgr == InitMgr /\ [][NextMgr]_vars

\* what the browser owes a call: the 100 ms timers of line 11 keep firing,
\* enumerateDevices settles, every getUserMedia request resolves or rejects
HardwareAnswers(c) ==
  \/ EnumDone(c)
  \/ GumReject(c)
  \/ \E k \in StreamKinds : GumResolve(c, k)

FairPaired ==
  /\ SpecPaired
  /\ \A c \in Callers : WF_vars(PollWake(c))
  /\ \A c \in Callers : WF_vars(HardwareAnswers(c))

(***************************************************************************)
(* Properties of the camera stream manager                                 *)
(***************************************************************************)
Holders == {c \in Callers : pc[c] = "holding"}
Released(e) == e.op \in {"release", "strayrelease"}

\* C1: with consumers that release exactly once per successful acquire,
\* usageCount is never negative and equals the number of successful
\* acquisitions not yet released, waiters' acquisitions included.
C1_CountIsUnreleasedAcquisitions ==
  /\ usageCount >= 0
  /\ usageCount = Cardinality(Holders)

\* C2: a call that waited on another call's acquisition never issues a
\* hardware request of its own, and it returns the stream the call it waited
\* on returned.
C2_WaiterNeverRequests ==
  \A c \in Callers : waitedOn[c] # 0 =>
    /\ pc[c] \notin {"enum", "gum"}
    /\ (pc[c] = "holding" /\ pc[waitedOn[c]] = "holding" => got[c] = got[waitedOn[c]])

\* C2 as amended: a waiter leaves the wait loop only once isInitializing is
\* false; if a stream is held then, it returns that stream and opens nothing;
\* if none is held it starts an acquisition of its own (or throws at once
\* where getUserMedia is missing).
C2_WaiterReusesHeldStream ==
  [][\A c \in Callers : pc[c] = "poll" /\ pc'[c] # "poll" =>
       /\ ~isInitializing
       /\ IF stream # 0
            THEN /\ pc'[c] = "holding"
                 /\ got'[c] = stream
                 /\ stream' = stream
                 /\ nextStream' = nextStream
                 /\ isInitializing' = FALSE
            ELSE pc'[c] \in {"enum", "idle"}]_vars

C2_Witness ==
  /\ ev.op = "wake"
  /\ waitedOn[ev.c] # 0
  /\ pc[ev.c] = "holding"
  /\ got[ev.c] = stream

\* C3: at most one getUserMedia request of the manager is in flight.
C3_OneRequestInFlight ==
  Cardinality({c \in Callers : pc[c] = "gum"}) <= 1

\* a waiter took over after the acquisition it waited on failed, while
\* another caller is still waiting
C3_Witness ==
  \E c, d \in Callers :
    /\ c # d
    /\ pc[c] = "gum"
    /\ waitedOn[c] # 0
    /\ pc[d] = "poll"

\* C4: when every option has failed the call throws, and then stream is
\* null, usageCount is what the call found, isInitializing is false and every
\* track of every stream the call opened is stopped.
C4_RejectLeavesNothing ==
  ev.op = "reject" =>
    /\ stream = 0
    /\ usageCount = ev.before
    /\ ~isInitializing
    /\ pc[ev.c] = "idle"
    /\ \A s \in ev.opened : AllTracksStopped(s)

\* the call that threw had opened two streams, one of them with tracks
C4_Witness ==
  /\ ev.op = "reject"
  /\ Cardinality(ev.opened) >= 2
  /\ \E s \in ev.opened : tracks[s] = "stopped"

\* C5: a release lowers usageCount by one, not below 0; at 0 with a stream
\* held every track is stopped and the reference nulled; above 0 the
\* reference and the tracks are untouched.
C5_ReleaseEffect ==
  [][Released(ev') =>
       /\ usageCount' = (IF usageCount > 0 THEN usageCount - 1 ELSE 0)
       /\ (usageCount' = 0 /\ stream # 0 =>
             stream' = 0 /\ tracks'[stream] \in {"stopped", "empty"})
       /\ (usageCount' > 0 => stream' = stream /\ tracks' = tracks)]_vars

\* the last holder released and the stream was stopped
C5_Witness ==
  /\ ev.op = "release"
  /\ usageCount = 0
  /\ stream = 0
  /\ \E s \in StreamIds : tracks[s] = "stopped"

\* C6: a release at usageCount 0 changes nothing, an acquisition in flight
\* or not.
C6_ReleaseAtZeroIsNoOp ==
  [][Released(ev') /\ usageCount = 0 =>
       /\ usageCount' = 0
       /\ stream' = stream
       /\ tracks' = tracks
       /\ isInitializing' = isInitializing]_vars

\* a release at count 0 while an acquisition is in flight
C6_Witness ==
  /\ ev.op = "strayrelease"
  /\ usageCount = 0
  /\ isInitializing
  /\ \E c \in Callers : pc[c] = "gum"

\* C7: the stream a call returns is live: a held stream whose video track
\* has ended is not handed out.
C7_ReturnedStreamIsLive ==
  ev.op \in {"return", "wake"} => tracks[got[ev.c]] = "live"

\* C17: with consumers that release exactly once per successful acquire,
\* the tracks of a stream are not stopped while a consumer that received it
\* has not released it.
C17_HeldStreamNotStopped ==
  \A c \in Holders : got[c] # 0 => tracks[got[c]] # "stopped"

\* C18: within one acquisition the options are tried in list order, the
\* next one only after the one before was rejected or gave no live video
\* track; the first option with a live track is accepted and ends the
\* acquisition; the call throws only after the last option failed.
C18_OptionsInOrder ==
  [][\A c \in Callers :
       /\ opt'[c] # opt[c] =>
            \/ opt[c] = 0 /\ opt'[c] = 1 /\ pc[c] = "enum" /\ pc'[c] = "gum"
            \/ /\ opt'[c] = opt[c] + 1
               /\ pc[c] = "gum" /\ pc'[c] = "gum"
               /\ stream' = 0
               /\ \/ nextStream' = nextStream
                  \/ tracks'[nextStream] \in {"stopped", "empty"}
            \/ /\ opt'[c] = 0
               /\ pc[c] = "gum"
               /\ \/ pc'[c] = "holding" /\ stream' = nextStream /\ tracks'[stream'] = "live"
                  \/ pc'[c] = "idle" /\ opt[c] = NumOptions /\ ev'.op = "reject" /\ stream' = 0
       /\ (pc[c] = "gum" /\ pc'[c] = "idle") => opt[c] = NumOptions
       /\ (pc[c] = "gum" /\ nextStream' # nextStream /\ tracks'[nextStream] = "live")
            => pc'[c] = "holding"]_vars

\* the last option is requested after the first gave a stream without a live
\* track
C18_Witness ==
  \E c \in Callers : pc[c] = "gum" /\ opt[c] = NumOptions /\ 1 \in opened[c]

\* C19: a stream object without a live video track is not kept: while a
\* request is in flight the stream reference is null, and every stream
\* object handed out by the device that is not the held one has all its
\* tracks stopped.
C19_RejectedStreamStopped ==
  /\ \A c \in Callers : pc[c] = "gum" => stream = 0
  /\ \A s \in StreamIds : (s < nextStream /\ s # stream) => AllTracksStopped(s)

\* the next option is requested after a stream whose video track was not
\* live has been stopped
C19_Witness ==
  \E c \in Callers :
    pc[c] = "gum" /\ \E s \in opened[c] : tracks[s] = "stopped" /\ stream = 0

\* C20: when no acquisition is in flight, the stream reference is non-null
\* exactly when usageCount is positive.
C20_StreamIffCount ==
  ~isInitializing => (stream # 0 <=> usageCount > 0)

\* a waiter has just been handed the held stream
C20_Witness ==
  /\ ev.op = "wake"
  /\ ~isInitializing
  /\ stream # 0
  /\ usageCount > 0

\* a getCameraStream call of c that has neither returned nor thrown
InCall(c) == pc[c] \in {"poll", "enum", "gum"}

\* C27: isInitializing is true only while an acquisition is in flight, and
\* every getCameraStream call, a polling one included, eventually returns a
\* stream or throws.
C27_EveryCallEnds ==
  /\ [](isInitializing <=> Acquirer # 0)
  /\ \A c \in Callers : InCall(c) ~> ~InCall(c)

\* the flag half of C27 on its own
FlagOnlyWhileAcquiring == isInitializing <=> Acquirer # 0

\* C21: at most one stream object the manager obtained has tracks that
\* were not stopped, and a new stream object is obtained only when every
\* earlier one has been stopped.
C21_OneOpenStream ==
  /\ [](Cardinality({s \in StreamIds : s < nextStream /\ ~AllTracksStopped(s)}) <= 1)
  /\ [][nextStream' # nextStream =>
          \A s \in StreamIds : s < nextStream => AllTracksStopped(s)]_vars

\* a stream is held and live after an earlier one was opened and stopped
C21_Witness ==
  \E s, r \in StreamIds :
    r < s /\ stream = s /\ tracks[s] = "live" /\ tracks[r] = "stopped" /\ usageCount > 0

TypeOKMgr ==
  /\ stream \in 0..MaxStreams
  /\ usageCount \in 0..NCallers
  /\ isInitializing \in BOOLEAN
  /\ \A c \in Callers : pc[c] \in {"idle", "poll", "enum", "gum", "holding"}

(***************************************************************************)
(* The decode engine (Html5Qrcode), as the widgets use it: stop() succeeds *)
(* on an engine that is scanning and fails on one that is not; clear()     *)
(* throws on an engine that is scanning.                                   *)
(***************************************************************************)
Scanning(en, e) == e # 0 /\ en[e].state = "SCANNING"

\* new Html5Qrcode(scannerId)
NewEngine(en, e) == [en EXCEPT ![e] = [state |-> "NOT_STARTED", cleared |-> FALSE, by |-> 0]]

\* a pending stop() resolves
Stopped(en, e) == [en EXCEPT ![e].state = "NOT_STARTED"]

\* scanner.current.clear(), its throw caught by the caller
Cleared(en, e) ==
  IF e = 0 \/ en[e].state = "SCANNING" THEN en ELSE [en EXCEPT ![e].cleared = TRUE]

(***************************************************************************)
(* Messages: a text is the set of the fragments it contains, so that       *)
(* includes() is membership and a fixed text is a singleton.               *)
(***************************************************************************)
\* part_002 line 181 and QRScanner.tsx line 95
errorMessage(err) ==
  IF err.kind = "Error" THEN err.text ELSE {"Failed to initialize QR scanner"}

\* part_002 lines 185-194
userFriendlyMessage(err) ==
  LET m == errorMessage(err)
  IN IF "Permission" \in m \/ "NotAllowedError" \in m
       THEN {"Camera permission denied. Please allow camera access and refresh the page."}
     ELSE IF "NotFoundError" \in m \/ "Requested device not found" \in m
       THEN {"No camera found. Please ensure your device has a camera and try refreshing the page."}
     ELSE IF "NotSupportedError" \in m
       THEN {"Camera not supported in this browser. Please try Chrome or Safari."}
     ELSE IF "NotReadableError" \in m
       THEN {"Camera is already in use by another application. Please close other camera apps and try again."}
     ELSE m

\* QRScanner.tsx lines 99-106
baseUserFriendlyMessage(err) ==
  LET m == errorMessage(err)
  IN IF "Permission" \in m
       THEN {"Camera permission denied. Please allow camera access and refresh the page."}
     ELSE IF "NotFoundError" \in m
       THEN {"No camera found. Please ensure your device has a camera."}
     ELSE IF "NotAllowedError" \in m
       THEN {"Camera access blocked. Please check your browser settings."}
     ELSE m

(***************************************************************************)
(* Scanner widget with attempt identifiers (src/unnamed/part_002)          *)
(***************************************************************************)
Stale(k) == k # widget.initializationAttempt

\* what attempt k does is recorded once k is superseded
ActsOf(k, acts) == IF k # 0 /\ Stale(k) THEN staleActs \cup acts ELSE staleActs

\* lines 210-216: the cleanup of the last effect run marks its attempt outdated
EffectCleanup(w) ==
  IF w.effect # 0 /\ w.effect = w.initializationAttempt
    THEN [w EXCEPT !.initializationAttempt = @ + 1, !.effect = 0]
    ELSE [w EXCEPT !.effect = 0]

\* line 211: clearTimeout(timer)
ClearTimer(t, w) ==
  IF w.effect # 0 /\ t[w.effect].pc = "timer"
    THEN [t EXCEPT ![w.effect] = [NoTask EXCEPT !.pc = "done"]]
    ELSE t

\* lines 68-70: the guard of the effect and the new attempt identifier
EffectBody(w) ==
  IF ~w.isActive \/ ~w.mounted \/ w.isInitializing \/ w.isCleaningUp
    THEN w
    ELSE [w EXCEPT !.initializationAttempt = @ + 1, !.effect = w.initializationAttempt + 1]

\* lines 67-217: a dependency of the effect changed; the previous run's
\* cleanup, then the effect with the new props; line 208 arms the timer
RunEffect(active) ==
  /\ widget.mounted
  /\ widget.initializationAttempt + 2 <= MaxAttempt
  /\ LET w == EffectBody([EffectCleanup(widget) EXCEPT !.isActive = active])
         t == ClearTimer(tasks, widget)
     IN /\ widget' = w
        /\ tasks' = IF w.effect # 0 THEN [t EXCEPT ![w.effect].pc = "timer"] ELSE t
  /\ wev' = [NoCall EXCEPT !.cb = IF ~active THEN "deactivated"
                                  ELSE IF widget.isActive THEN "rerun" ELSE "activated"]
  /\ UNCHANGED <<mgrVars, baseVars, cleaningVars, engines, sc, staleActs, calls>>

\* the parent sets isActive
Activate == ~widget.isActive /\ RunEffect(TRUE)

\* the parent clears isActive
Deactivate == widget.isActive /\ RunEffect(FALSE)

\* another dependency (fps, qrbox, preferredCamera, a callback) changes
PropChange == widget.isActive /\ RunEffect(TRUE)

\* lines 37-46: the synchronous part of safeCleanup: TRUE when it goes on
\* to its awaits, FALSE when the guard of line 38 makes it return at once
CleanupStarts(w) == w.scanner # 0 /\ ~w.isCleaningUp

\* lines 38-46, entered for attempt k (0: the unmount cleanup)
CleanupBegin(w, k) ==
  [pc |-> IF Scanning(engines, w.scanner) THEN "stop" ELSE "wait",
   e |-> w.scanner, owner |-> k]

\* lines 210-216 and 220-224: the component unmounts; both effects' cleanups
Unmount ==
  /\ widget.mounted
  /\ widget.initializationAttempt + 1 <= MaxAttempt
  /\ LET w == [EffectCleanup(widget) EXCEPT !.mounted = FALSE]
     IN IF CleanupStarts(w)
          THEN /\ widget' = [w EXCEPT !.isCleaningUp = TRUE]
               /\ sc' = CleanupBegin(w, 0)
          ELSE /\ widget' = w
               /\ UNCHANGED sc
  /\ tasks' = ClearTimer(tasks, widget)
  /\ wev' = NoCall
  /\ UNCHANGED <<mgrVars, baseVars, cleaningVars, engines, staleActs, calls>>

\* mutant: initScanner without the safeCleanup call of line 84
TimerFireNoCleanup(k) ==
  /\ tasks[k].pc = "timer"
  /\ IF Stale(k)
       THEN /\ tasks' = [tasks EXCEPT ![k].pc = "done"]
            /\ UNCHANGED widget
       ELSE /\ widget' = [widget EXCEPT !.isInitializing = TRUE, !.error = "null"]
            /\ tasks' = [tasks EXCEPT ![k].pc = "settle"]
  /\ wev' = NoCall
  /\ UNCHANGED <<mgrVars, baseVars, cleaningVars, engines, sc, staleActs, calls>>

\* lines 72-84: the 200 ms timer fires and initScanner runs to its first await
TimerFire(k) ==
  /\ tasks[k].pc = "timer"
  /\ IF Stale(k)
       THEN /\ tasks' = [tasks EXCEPT ![k].pc = "done"]
            /\ UNCHANGED <<widget, sc>>
       ELSE LET w == [widget EXCEPT !.isInitializing = TRUE, !.error = "null"]
            IN IF CleanupStarts(w)
                 THEN /\ widget' = [w EXCEPT !.isCleaningUp = TRUE]
                      /\ sc' = CleanupBegin(w, k)
                      /\ tasks' = [tasks EXCEPT ![k].pc = "cleanup"]
                 ELSE /\ widget' = w
                      /\ tasks' = [tasks EXCEPT ![k].pc = "settle"]
                      /\ UNCHANGED sc
  /\ wev' = NoCall
  /\ UNCHANGED <<mgrVars, baseVars, cleaningVars, engines, staleActs, calls>>

\* mutant: safeCleanup goes on to its wait and clear while the stop is
\* still pending
CleanupStopNotAwaited ==
  /\ sc.pc = "stop"
  /\ sc' = [sc EXCEPT !.pc = "wait"]
  /\ wev' = NoCall
  /\ UNCHANGED <<mgrVars, baseVars, cleaningVars, widget, engines, tasks, staleActs, calls>>

\* lines 45-53: the stop awaited by safeCleanup resolves
CleanupStopDone ==
  /\ sc.pc = "stop"
  /\ engines' = Stopped(engines, sc.e)
  /\ sc' = [sc EXCEPT !.pc = "wait"]
  /\ wev' = NoCall
  /\ UNCHANGED <<mgrVars, baseVars, cleaningVars, widget, tasks, staleActs, calls>>

\* lines 53-63: after the 100 ms wait safeCleanup clears the engine that
\* scanner.current names by then and nulls the reference; the initScanner
\* awaiting it goes on to the 300 ms wait of line 87
CleanupWaitDone ==
  /\ sc.pc = "wait"
  /\ engines' = Cleared(engines, widget.scanner)
  /\ widget' = [widget EXCEPT !.scanner = 0, !.isCleaningUp = FALSE]
  /\ sc' = NoCleanup
  /\ tasks' = IF sc.owner # 0 /\ tasks[sc.owner].pc = "cleanup"
                THEN [tasks EXCEPT ![sc.owner].pc = "settle"]
                ELSE tasks
  /\ staleActs' = ActsOf(sc.owner, {"scanner"})
  /\ UNCHANGED calls
  /\ wev' = NoCall
  /\ UNCHANGED <<mgrVars, baseVars, cleaningVars>>

\* lines 180-204 for attempt k: the catch of the value thrown (setError,
\* onScannerInit(false), onScanError) and the finally; how: "threw", or
\* for the throw of line 177 "exhausted", or "permission" when every
\* option was rejected with a permission error
InitFailed(k, w, thrown, how) ==
  /\ widget' = [w EXCEPT !.error = "set",
                         !.isInitializing = IF Stale(k) THEN @ ELSE FALSE]
  /\ tasks' = [tasks EXCEPT ![k] = [NoTask EXCEPT !.pc = "done"]]
  /\ staleActs' = ActsOf(k, {"setError", "onScannerInit", "onScanError"})
  /\ calls' = [calls EXCEPT ![k].fail = @ + 1, ![k].err = @ + 1]
  /\ wev' = [cb |-> "onScanError", arg |-> userFriendlyMessage(thrown), by |-> k,
             src |-> [thrown |-> thrown, how |-> how]]

\* lines 90-92, 130-132 and 199-204: an outdated attempt returns
InitAbandoned(k, w) ==
  /\ widget' = w
  /\ tasks' = [tasks EXCEPT ![k] = [NoTask EXCEPT !.pc = "done"]]
  /\ wev' = NoCall
  /\ UNCHANGED <<staleActs, calls>>

\* lines 137-150: start is called on the engine scanner.current names
StartCalled(k, w, t) ==
  /\ widget' = w
  /\ tasks' = [tasks EXCEPT ![k] =
                 [t EXCEPT !.pc = "start", !.i = @ + 1, !.e = w.scanner,
                           !.facing = StartConstraint(t.i + 1, w.preferredCamera)]]
  /\ wev' = NoCall
  /\ UNCHANGED <<staleActs, calls>>

\* lines 87-137: the 300 ms wait ends; the attempt check, the new engine,
\* the first camera option
SettleDone(k) ==
  /\ tasks[k].pc = "settle"
  /\ IF Stale(k) \/ ~widget.isActive
       THEN InitAbandoned(k, widget) /\ UNCHANGED engines
       ELSE IF ~widget.mounted
         THEN InitFailed(k, widget, ContainerNotFound, "threw") /\ UNCHANGED engines
         ELSE /\ engines' = NewEngine(engines, k)
              /\ StartCalled(k, [widget EXCEPT !.scanner = k], [NoTask EXCEPT !.i = 0])
  /\ UNCHANGED <<mgrVars, baseVars, cleaningVars, sc>>

\* StartOk without the scannerStarted flag of line 152: line 177 throws
\* after onScannerInit(true)
StartOkNoFlag(k) ==
  /\ tasks[k].pc = "start"
  /\ engines' = [engines EXCEPT ![tasks[k].e].state = "SCANNING", ![tasks[k].e].by = k]
  /\ widget' = [widget EXCEPT !.error = "set",
                              !.isInitializing = IF Stale(k) THEN @ ELSE FALSE]
  /\ tasks' = [tasks EXCEPT ![k] = [NoTask EXCEPT !.pc = "done"]]
  /\ staleActs' = ActsOf(k, {"setError", "onScannerInit", "onScanError"})
  /\ calls' = [calls EXCEPT ![k].started = @ + 1, ![k].ok = @ + 1,
                            ![k].fail = @ + 1, ![k].err = @ + 1]
  /\ wev' = [cb |-> "onScanError", arg |-> userFriendlyMessage(AllOptionsFailed), by |-> k,
             src |-> [thrown |-> AllOptionsFailed, how |-> "exhausted"]]
  /\ UNCHANGED <<mgrVars, baseVars, cleaningVars, sc>>

\* lines 152-155 and 199-204: start resolves; onScannerInit(true), finally
StartOk(k) ==
  /\ tasks[k].pc = "start"
  /\ engines' = [engines EXCEPT ![tasks[k].e].state = "SCANNING", ![tasks[k].e].by = k]
  /\ widget' = [widget EXCEPT !.isInitializing = IF Stale(k) THEN @ ELSE FALSE]
  /\ tasks' = [tasks EXCEPT ![k] = [NoTask EXCEPT !.pc = "done"]]
  /\ staleActs' = ActsOf(k, {"onScannerInit"})
  /\ calls' = [calls EXCEPT ![k].started = @ + 1, ![k].ok = @ + 1]
  /\ wev' = [cb |-> "onScannerInit", arg |-> "true", by |-> k, src |-> "start"]
  /\ UNCHANGED <<mgrVars, baseVars, cleaningVars, sc>>

\* lines 128-138 and 176-178 after option t.i failed, t the attempt's
\* position and lastError: the attempt check and the next start;
\* scanner.current!.start on a null reference throws a TypeError into the
\* catch of 157 for every option left; after the last option the throw of
\* line 177
NextOption(k, t) ==
  IF t.i < NumCameraOptions
    THEN IF Stale(k) \/ ~widget.isActive
           THEN InitAbandoned(k, widget)
           ELSE IF widget.scanner = 0
                  THEN InitFailed(k, widget, TypeError, "exhausted")
                  ELSE StartCalled(k, widget, t)
    ELSE InitFailed(k, widget,
                    IF t.lastError = NoError THEN AllOptionsFailed ELSE t.lastError,
                    IF t.perm THEN "permission" ELSE "exhausted")

\* mutant: the catch of line 157 without the stop of lines 162-172
StartFailNoStop(k, partial, err) ==
  /\ tasks[k].pc = "start"
  /\ engines' = IF partial
                  THEN [engines EXCEPT ![tasks[k].e].state = "SCANNING", ![tasks[k].e].by = k]
                  ELSE engines
  /\ NextOption(k, [tasks[k] EXCEPT !.lastError = err,
                                    !.perm = @ /\ err \in {PermissionError, PermissionString}])
  /\ UNCHANGED <<mgrVars, baseVars, cleaningVars, sc>>

\* lines 157-173: start rejects with err, the engine left scanning or
\* not; an engine found scanning is stopped before the next option
StartFail(k, partial, err) ==
  /\ tasks[k].pc = "start"
  /\ engines' = IF partial
                  THEN [engines EXCEPT ![tasks[k].e].state = "SCANNING", ![tasks[k].e].by = k]
                  ELSE engines
  /\ LET t == [tasks[k] EXCEPT !.lastError = err,
                               !.perm = @ /\ err \in {PermissionError, PermissionString}]
     IN IF Scanning(engines', widget.scanner)
          THEN /\ tasks' = [tasks EXCEPT ![k] = [t EXCEPT !.pc = "fbstop", !.e = widget.scanner]]
               /\ wev' = NoCall
               /\ UNCHANGED <<widget, staleActs, calls>>
          ELSE NextOption(k, t)
  /\ UNCHANGED <<mgrVars, baseVars, cleaningVars, sc>>

\* line 167: the stop of the fallback resolves
FallbackStopDone(k) ==
  /\ tasks[k].pc = "fbstop"
  /\ engines' = Stopped(engines, tasks[k].e)
  /\ NextOption(k, tasks[k])
  /\ UNCHANGED <<mgrVars, baseVars, cleaningVars, sc>>

\* lines 140-143: the engine decodes a frame with text p; the handler given
\* to the start call of attempt engines[e].by calls onScanSuccess
Decode(e, p) ==
  /\ Scanning(engines, e)
  /\ wev' = [cb |-> "onScanSuccess", arg |-> p, by |-> engines[e].by, src |-> p]
  /\ staleActs' = ActsOf(engines[e].by, {"onScanSuccess"})
  /\ UNCHANGED <<mgrVars, baseVars, cleaningVars, widget, engines, tasks, sc, calls>>

\* DecodeError with a handler that hands the message to onScanError
DecodeErrorSurfaced(e) ==
  /\ Scanning(engines, e)
  /\ wev' = [NoCall EXCEPT !.cb = "decodeError", !.by = engines[e].by]
  /\ calls' = [calls EXCEPT ![engines[e].by].err = @ + 1]
  /\ UNCHANGED <<mgrVars, baseVars, cleaningVars, widget, engines, tasks, sc, staleActs>>

\* lines 144-149: the engine finds no code in a frame; the handler only logs
DecodeError(e) ==
  /\ Scanning(engines, e)
  /\ wev' = [NoCall EXCEPT !.cb = "decodeError", !.by = engines[e].by]
  /\ UNCHANGED <<mgrVars, baseVars, cleaningVars, widget, engines, tasks, sc, staleActs, calls>>

\* what the parent and the camera do
AttemptEnv ==
  \/ Activate
  \/ Deactivate
  \/ PropChange
  \/ Unmount
  \/ \E e \in AttemptIds, p \in Payloads : Decode(e, p)
  \/ \E e \in AttemptIds : DecodeError(e)

\* timers firing and promises settling
AttemptSteps ==
  \/ \E k \in AttemptIds : TimerFire(k)
  \/ CleanupStopDone
  \/ CleanupWaitDone
  \/ \E k \in AttemptIds : SettleDone(k)
  \/ \E k \in AttemptIds : StartOk(k)
  \/ \E k \in AttemptIds, partial \in BOOLEAN, err \in StartRejections :
       StartFail(k, partial, err)
  \/ \E k \in AttemptIds : FallbackStopDone(k)

NextAttempt == AttemptEnv \/ AttemptSteps

SpecAttempt == InitAttempt /\ [][NextAttempt]_vars

\* every armed timer fires and every pending promise settles
FairAttempt == SpecAttempt /\ WF_vars(AttemptSteps)

\* the widget on a device whose camera can be started: no start call
\* rejects
CameraOkSteps ==
  \/ \E k \in AttemptIds : TimerFire(k)
  \/ CleanupStopDone
  \/ CleanupWaitDone
  \/ \E k \in AttemptIds : SettleDone(k)
  \/ \E k \in AttemptIds : StartOk(k)

NextCameraOk == AttemptEnv \/ CameraOkSteps

SpecCameraOk == InitAttempt /\ [][NextCameraOk]_vars

FairCameraOk == SpecCameraOk /\ WF_vars(CameraOkSteps)

(***************************************************************************)
(* Properties of the widget with attempt identifiers                       *)
(***************************************************************************)
AnyScanning == \E e \in AttemptIds : Scanning(engines, e)

\* no initScanner and no safeCleanup is under way
AttemptQuiet ==
  /\ \A k \in AttemptIds : tasks[k].pc \in {"none", "done"}
  /\ sc.pc = "idle"

\* C8: when isActive goes from true to false while the engine is scanning
\* (the widget is Running) and the widget stays mounted, the engine is
\* eventually stopped and the scanner reference nulled (unless the widget is
\* activated again or unmounted first).
C8_DeactivationStopsEngine ==
  (wev.cb = "deactivated" /\ AnyScanning /\ AttemptQuiet)
    ~> (widget.isActive \/ ~widget.mounted \/ (widget.scanner = 0 /\ ~AnyScanning))

\* C9: an attempt that has been superseded invokes no callback and changes
\* neither error, isInitializing nor the scanner reference.
C9_StaleAttemptHasNoEffect == staleActs = {}

ScanningEngines == {e \in AttemptIds : Scanning(engines, e)}

\* C11: when the effect runs again with isActive still true, whatever point
\* the first attempt had reached, and the camera can be started: nothing is
\* thrown, no two engines are ever scanning at once, and the widget comes
\* to have exactly one engine scanning (unless it is deactivated or
\* unmounted first).
C11_RerunGivesOneSession ==
  /\ [](Cardinality(ScanningEngines) <= 1 /\ \A k \in AttemptIds : calls[k].err = 0)
  /\ (wev.cb = "rerun")
       ~> (~widget.isActive \/ ~widget.mounted \/ Cardinality(ScanningEngines) = 1)

\* C12: an attempt one of whose start calls resolved invokes
\* onScannerInit(true) exactly once and neither onScannerInit(false) nor
\* onScanError; no other attempt invokes onScannerInit(true); every decoded
\* frame reaches onScanSuccess with the decoded text unchanged.
C12_SuccessNotifiedOnce ==
  /\ \A k \in AttemptIds :
       /\ calls[k].started <= 1
       /\ calls[k].ok = calls[k].started
       /\ calls[k].started = 1 => (calls[k].fail = 0 /\ calls[k].err = 0)
  /\ wev.cb = "onScanSuccess" => wev.arg = wev.src

\* an attempt whose start call resolved decoded a frame that reached the
\* caller, after an earlier attempt had failed
C12_Witness ==
  /\ wev.cb = "onScanSuccess"
  /\ wev.by # 0
  /\ calls[wev.by].ok = 1
  /\ \E k \in AttemptIds : k # wev.by /\ calls[k].fail = 1

\* C13: when every camera option of the current attempt failed to start,
\* the attempt has invoked onScannerInit(false) once, onScanError once and
\* onScannerInit(true) never, the widget is Failed (isInitializing false,
\* error set) with no engine scanning, and when every option was rejected
\* with a permission error the message is the permission-denied text.
C13_ExhaustionFails ==
  (wev.cb = "onScanError" /\ wev.src.how # "threw" /\ ~Stale(wev.by)) =>
     /\ calls[wev.by] = [started |-> 0, ok |-> 0, fail |-> 1, err |-> 1]
     /\ ~widget.isInitializing
     /\ widget.error = "set"
     /\ ~AnyScanning
     /\ wev.src.how = "permission" =>
          wev.arg = {"Camera permission denied. Please allow camera access and refresh the page."}

\* C16: whatever happened before, when isActive goes from false to true
\* with the container mounted, an initialization attempt eventually calls
\* start on an engine (unless the widget is deactivated or unmounted or
\* another prop changes first).
C16_ReactivationRecovers ==
  (wev.cb = "activated")
    ~> \/ ~widget.isActive \/ ~widget.mounted \/ wev.cb = "rerun"
       \/ \E k \in AttemptIds : tasks[k].pc = "start"

\* C22: when initScanner constructs an engine, the scanner reference is
\* null and every engine the widget constructed before is stopped and
\* cleared; none of them is scanning when the new engine's start is
\* requested.
C22_OldEngineGoneBeforeNew ==
  [][\A k \in AttemptIds :
       (engines[k].state = "unused" /\ engines'[k].state # "unused") =>
          /\ widget.scanner = 0
          /\ \A e \in AttemptIds :
               engines[e].state # "unused" =>
                 (engines[e].state = "NOT_STARTED" /\ engines[e].cleared)
          /\ \A e \in AttemptIds \ {k} : ~Scanning(engines', e)]_vars

\* a second engine has been constructed after the first had scanned
C22_Witness ==
  \E k, e \in AttemptIds :
    /\ e < k
    /\ tasks[k].pc = "start"
    /\ widget.scanner = k
    /\ engines[e].cleared
    /\ engines[e].by = e

\* C23: safeCleanup stops (an engine that is scanning), then clears, then
\* nulls the reference, all on one engine: while it runs the reference
\* names the engine it began with and that engine is not yet cleared; its
\* stop has completed before the wait and the clear; the clear and the
\* nulling come in its last step; a safeCleanup call made while one is
\* running leaves the running one as it is.
C23_CleanupOrder ==
  /\ [](sc.pc # "idle" =>
          /\ widget.scanner = sc.e
          /\ widget.isCleaningUp
          /\ ~engines[sc.e].cleared)
  /\ [][/\ (sc.pc = "stop" /\ sc'.pc # "stop") =>
             (sc'.pc = "wait" /\ ~Scanning(engines', sc.e) /\ widget'.scanner = sc.e)
        /\ (sc.pc = "wait" /\ sc'.pc # "wait") =>
             /\ sc'.pc = "idle"
             /\ widget'.scanner = 0
             /\ ~widget'.isCleaningUp
             /\ ~Scanning(engines, sc.e) => engines'[sc.e].cleared
        /\ (sc.pc # "idle" /\ sc'.pc # "idle") =>
             (sc'.e = sc.e /\ sc'.owner = sc.owner)]_vars

\* the unmount cleanup called safeCleanup while the one an attempt began
\* was running
C23_Witness ==
  /\ sc.pc # "idle"
  /\ sc.owner # 0
  /\ ~widget.mounted

\* C25: an attempt requests the camera options one after the other in
\* list order; no start is requested while an engine of the widget is
\* scanning, so an engine that a failed start left scanning is stopped
\* first; after a start resolved the attempt requests no other; never are
\* two engines of the widget scanning.
C25_OptionsOneAtATime ==
  /\ [](Cardinality(ScanningEngines) <= 1)
  /\ [](\A k \in AttemptIds : tasks[k].pc \in {"start", "fbstop"} => calls[k].started = 0)
  /\ [][\A k \in AttemptIds :
          /\ (tasks'[k].i # tasks[k].i /\ tasks'[k].pc # "done") =>
               (tasks'[k].i = tasks[k].i + 1 /\ tasks'[k].pc = "start")
          /\ (tasks'[k].pc = "start" /\ tasks'[k] # tasks[k]) =>
               (tasks'[k].i = tasks[k].i + 1 /\ ScanningEngines' = {})
          /\ (tasks[k].pc = "start" /\ calls'[k].started = 1) => tasks'[k].pc = "done"]_vars

\* a later option is requested on an engine that the failed start before it
\* had left scanning and that was stopped
C25_Witness ==
  \E k \in AttemptIds :
    /\ tasks[k].pc = "start"
    /\ tasks[k].i >= 2
    /\ engines[tasks[k].e].by = k
    /\ engines[tasks[k].e].state = "NOT_STARTED"

\* C28: whenever isInitializing is true it is eventually false again
\* (unless the component is unmounted first): every attempt that set it,
\* ended as it may, is followed by its reset.
C28_InitializingIsReset ==
  widget.isInitializing ~> (~widget.isInitializing \/ ~widget.mounted)

\* C26: the first start of an attempt is requested with the facing mode
\* the preferredCamera prop names.
C26_PreferredCameraFirst ==
  \A k \in AttemptIds :
    (tasks[k].pc = "start" /\ tasks[k].i = 1) => tasks[k].facing = widget.preferredCamera

(***************************************************************************)
(* Base scanner widget (src/quest-app/src/components/ui/QRScanner.tsx)     *)
(***************************************************************************)
Underway(r) == bTasks[r].pc \notin {"none", "done"}

\* callbacks of run r are recorded when isActive left during the run
LateOf(r, cbs) == IF bTasks[r].deact THEN late \cup cbs ELSE late

\* lines 117-130: the cleanup of the last effect run calls stop on the engine
\* scanner.current names; on an engine that is not scanning the call fails
\* and only the catch of line 126 runs
CleanupStops(b) ==
  IF b.cleanup /\ Scanning(bEngines, b.scanner) THEN bStops \cup {b.scanner} ELSE bStops

\* lines 32-46: the guard of the effect, then initScanner up to its first
\* await, as run r
BaseEffectBody(b, r) ==
  IF ~b.isActive \/ ~b.mounted \/ b.isInitializing
    THEN /\ base' = [b EXCEPT !.cleanup = FALSE]
         /\ UNCHANGED bTasks
    ELSE /\ base' = [b EXCEPT !.cleanup = TRUE, !.isInitializing = TRUE, !.runs = r]
         /\ bTasks' = [bTasks EXCEPT ![r] =
                         [pc |-> IF b.scanner # 0 THEN "prestop" ELSE "settle",
                          e |-> b.scanner, deact |-> FALSE]]

\* the change of props a step is, with what the cleanup of lines 117-130
\* did on it: nothing, a stop call on the engine scanner.current names, or
\* such a call that failed
CleanupEvent(b, change) ==
  [cb |-> change,
   arg |-> IF b.cleanup /\ b.scanner # 0
             THEN IF Scanning(bEngines, b.scanner) THEN "stop" ELSE "stop failed"
             ELSE "none",
   by |-> IF b.cleanup THEN b.scanner ELSE 0,
   src |-> "none"]

\* lines 31-131: a dependency of the effect changed: the previous run's
\* cleanup, then the effect with the new props
BaseRunEffect(active) ==
  /\ base.mounted
  /\ base.runs < MaxRuns
  /\ bStops' = CleanupStops(base)
  /\ BaseEffectBody([base EXCEPT !.isActive = active], base.runs + 1)
  /\ bev' = CleanupEvent(base, IF base.isActive THEN "rerun" ELSE "activated")
  /\ UNCHANGED <<mgrVars, attemptVars, cleaningVars, bEngines, late>>

BaseActivate == ~base.isActive /\ BaseRunEffect(TRUE)

BasePropChange == base.isActive /\ BaseRunEffect(TRUE)

\* isActive becomes false: the cleanup runs, the guard of line 32 returns;
\* the runs of initScanner under way go on
BaseDeactivate ==
  /\ base.mounted
  /\ base.isActive
  /\ bStops' = CleanupStops(base)
  /\ base' = [base EXCEPT !.isActive = FALSE, !.cleanup = FALSE]
  /\ bTasks' = [r \in RunIds |->
                  IF Underway(r) THEN [bTasks[r] EXCEPT !.deact = TRUE] ELSE bTasks[r]]
  /\ bev' = CleanupEvent(base, "deactivated")
  /\ UNCHANGED <<mgrVars, attemptVars, cleaningVars, bEngines, late>>

\* the component unmounts: the cleanup of the last effect run
BaseUnmount ==
  /\ base.mounted
  /\ bStops' = CleanupStops(base)
  /\ base' = [base EXCEPT !.mounted = FALSE, !.cleanup = FALSE]
  /\ bev' = CleanupEvent(base, "unmounted")
  /\ UNCHANGED <<mgrVars, attemptVars, cleaningVars, bEngines, bTasks, late>>

\* lines 121-125: the stop of a cleanup resolves: clear and null whatever
\* scanner.current names by then
BaseCleanupStopDone(e) ==
  /\ e \in bStops
  /\ bStops' = bStops \ {e}
  /\ bEngines' = Cleared(Stopped(bEngines, e), base.scanner)
  /\ base' = [base EXCEPT !.scanner = 0]
  /\ bev' = NoCall
  /\ UNCHANGED <<mgrVars, attemptVars, cleaningVars, bTasks, late>>

\* lines 94-112 for run r: the catch (onScannerInit(false), onScanError)
\* and the finally
BaseFailed(r, b, thrown) ==
  /\ base' = [b EXCEPT !.isInitializing = FALSE]
  /\ bTasks' = [bTasks EXCEPT ![r] = [NoRun EXCEPT !.pc = "done"]]
  /\ late' = LateOf(r, {"onScannerInit", "onScanError"})
  /\ bev' = [cb |-> "onScanError", arg |-> baseUserFriendlyMessage(thrown), by |-> r,
             src |-> [thrown |-> thrown,
                      how |-> IF thrown \in StartRejections THEN "rejected" ELSE "threw"]]

\* lines 76 and 92, then 110-112: onScannerInit(true) and the finally
BaseStarted(r) ==
  /\ bEngines' = [bEngines EXCEPT ![bTasks[r].e].state = "SCANNING", ![bTasks[r].e].by = r]
  /\ base' = [base EXCEPT !.isInitializing = FALSE]
  /\ bTasks' = [bTasks EXCEPT ![r] = [NoRun EXCEPT !.pc = "done"]]
  /\ late' = LateOf(r, {"onScannerInit"})
  /\ bev' = [cb |-> "onScannerInit", arg |-> "true", by |-> r, src |-> "start"]

\* lines 40-46: the stop of the old engine has settled, its failure
\* swallowed; clear and null, unless scanner.current is null by now or its
\* engine scanning, where line 41 throws into the catch of 94
BasePrestopDone(r) ==
  /\ bTasks[r].pc = "prestop"
  /\ bEngines' = Cleared(IF Scanning(bEngines, bTasks[r].e)
                           THEN Stopped(bEngines, bTasks[r].e)
                           ELSE bEngines, base.scanner)
  /\ IF base.scanner = 0 \/ Scanning(bEngines', base.scanner)
       THEN BaseFailed(r, base, IF base.scanner = 0 THEN TypeError ELSE ClearWhileScanning)
       ELSE /\ base' = [base EXCEPT !.scanner = 0]
            /\ bTasks' = [bTasks EXCEPT ![r].pc = "settle", ![r].e = 0]
            /\ bev' = NoCall
            /\ UNCHANGED late
  /\ UNCHANGED <<mgrVars, attemptVars, cleaningVars, bStops>>

\* lines 46-73: the 100 ms wait ends: the new engine, start with the
\* preferred camera
BaseSettleDone(r) ==
  /\ bTasks[r].pc = "settle"
  /\ bEngines' = NewEngine(bEngines, r)
  /\ base' = [base EXCEPT !.scanner = r]
  /\ bTasks' = [bTasks EXCEPT ![r].pc = "start", ![r].e = r]
  /\ bev' = NoCall
  /\ UNCHANGED <<mgrVars, attemptVars, cleaningVars, bStops, late>>

\* lines 75-76: the first start resolves
BaseStartOk(r) ==
  /\ bTasks[r].pc = "start"
  /\ BaseStarted(r)
  /\ UNCHANGED <<mgrVars, attemptVars, cleaningVars, bStops>>

\* lines 77-89: the first start rejects, the engine left scanning or not;
\* the fallback start on the engine scanner.current names, a null
\* reference throwing into the catch of 94
BaseStartFail(r, partial) ==
  /\ bTasks[r].pc = "start"
  /\ LET en == IF partial
                 THEN [bEngines EXCEPT ![bTasks[r].e].state = "SCANNING", ![bTasks[r].e].by = r]
                 ELSE bEngines
     IN IF base.scanner = 0
          THEN bEngines' = en /\ BaseFailed(r, base, TypeError)
          ELSE /\ bEngines' = en
               /\ bTasks' = [bTasks EXCEPT ![r].pc = "fallback", ![r].e = base.scanner]
               /\ bev' = NoCall
               /\ UNCHANGED <<base, late>>
  /\ UNCHANGED <<mgrVars, attemptVars, cleaningVars, bStops>>

\* lines 91-92: the fallback start resolves
BaseFallbackOk(r) ==
  /\ bTasks[r].pc = "fallback"
  /\ BaseStarted(r)
  /\ UNCHANGED <<mgrVars, attemptVars, cleaningVars, bStops>>

\* lines 94-112: the fallback start rejects
BaseFallbackFail(r, partial, err) ==
  /\ bTasks[r].pc = "fallback"
  /\ bEngines' = IF partial
                   THEN [bEngines EXCEPT ![bTasks[r].e].state = "SCANNING", ![bTasks[r].e].by = r]
                   ELSE bEngines
  /\ BaseFailed(r, base, err)
  /\ UNCHANGED <<mgrVars, attemptVars, cleaningVars, bStops>>

\* lines 63-66 and 84-87: the engine decodes a frame
BaseDecode(e, p) ==
  /\ Scanning(bEngines, e)
  /\ bev' = [cb |-> "onScanSuccess", arg |-> p, by |-> bEngines[e].by, src |-> p]
  /\ UNCHANGED <<mgrVars, attemptVars, cleaningVars, base, bEngines, bTasks, bStops, late>>

\* lines 67-72 and 89: the engine finds no code in a frame; the handler of
\* the first start only logs, that of the fallback does nothing
BaseDecodeError(e) ==
  /\ Scanning(bEngines, e)
  /\ bev' = [NoCall EXCEPT !.cb = "decodeError", !.by = bEngines[e].by]
  /\ UNCHANGED <<mgrVars, attemptVars, cleaningVars, base, bEngines, bTasks, bStops, late>>

\* what the parent and the camera do
BaseEnv ==
  \/ BaseActivate
  \/ BasePropChange
  \/ BaseDeactivate
  \/ BaseUnmount
  \/ \E e \in RunIds, p \in Payloads : BaseDecode(e, p)
  \/ \E e \in RunIds : BaseDecodeError(e)

\* promises settling and timers firing
BaseSteps ==
  \/ \E e \in RunIds : BaseCleanupStopDone(e)
  \/ \E r \in RunIds : BasePrestopDone(r)
  \/ \E r \in RunIds : BaseSettleDone(r)
  \/ \E r \in RunIds : BaseStartOk(r)
  \/ \E r \in RunIds, partial \in BOOLEAN : BaseStartFail(r, partial)
  \/ \E r \in RunIds : BaseFallbackOk(r)
  \/ \E r \in RunIds, partial \in BOOLEAN, err \in StartRejections :
       BaseFallbackFail(r, partial, err)

NextBase == BaseEnv \/ BaseSteps

SpecBase == InitBase /\ [][NextBase]_vars

\* every pending promise settles and every armed timer fires
FairBase == SpecBase /\ WF_vars(BaseSteps)

\* either widget, whichever the page renders
NextWidgets == NextAttempt \/ NextBase

SpecWidgets == InitWidgets /\ [][NextWidgets]_vars

(***************************************************************************)
(* Properties of the base widget                                           *)
(***************************************************************************)
BaseAnyScanning == \E e \in RunIds : Scanning(bEngines, e)

\* C10: when isActive becomes false while initScanner is under way, that
\* run invokes neither onScannerInit nor onScanError, and eventually no
\* engine of the widget is scanning (unless the widget is activated again).
C10_DeactivationMidInit ==
  /\ [](late = {})
  /\ ((\E r \in RunIds : Underway(r) /\ bTasks[r].deact)
        ~> (base.isActive \/ ~BaseAnyScanning))

\* C29: the then-branch of a cleanup (lines 121-125) clears and nulls no
\* engine but the one that cleanup stopped, and whenever an engine of the
\* widget is scanning, scanner.current names it.
C29_CleanupSparesNewEngine ==
  /\ [][\A e \in RunIds :
          (e \in bStops /\ e \notin bStops') => base.scanner \in {0, e}]_vars
  /\ [](\A e \in RunIds : Scanning(bEngines, e) => base.scanner = e)

\* C24: when the effect cleanup runs and the stop call on the engine
\* fails, the engine is still cleared and the scanner reference no longer
\* names it.
C24_FailedStopStillClears ==
  \A e \in RunIds :
    (bev.cb \in {"activated", "rerun", "deactivated", "unmounted"}
       /\ bev.arg = "stop failed" /\ bev.by = e)
      ~> (bEngines[e].cleared /\ base.scanner # e)

(***************************************************************************)
(* Properties of both widgets                                              *)
(***************************************************************************)
\* C14: the message given to onScanError after a start failure is the
\* fixed text of the category of the value the start call rejected with
\* (permission denied, device not found, unsupported, device busy), and
\* the raw message of a value of no recognised category, be the value an
\* Error object or a plain string.
C14_MessageByCategory ==
  \A ce \in {wev, bev} :
    (ce.cb = "onScanError" /\ ce.src.how # "threw") =>
      LET raw == ce.src.thrown.text
      IN IF "Permission" \in raw \/ "NotAllowedError" \in raw
           THEN ce.arg \in
                  {{"Camera permission denied. Please allow camera access and refresh the page."},
                   {"Camera access blocked. Please check your browser settings."}}
         ELSE IF "NotFoundError" \in raw \/ "Requested device not found" \in raw
           THEN ce.arg \in
                  {{"No camera found. Please ensure your device has a camera and try refreshing the page."},
                   {"No camera found. Please ensure your device has a camera."}}
         ELSE IF "NotSupportedError" \in raw
           THEN ce.arg = {"Camera not supported in this browser. Please try Chrome or Safari."}
         ELSE IF "NotReadableError" \in raw
           THEN ce.arg = {"Camera is already in use by another application. Please close other camera apps and try again."}
         ELSE ce.arg = raw

\* C15: a frame in which the engine finds no code invokes neither
\* onScanError nor onScannerInit and changes nothing of the widget
\* (isInitializing, error, the scanner reference, its engines, its runs of
\* initScanner), in either widget.
C15_DecodeErrorsAreSilent ==
  [][/\ (wev'.cb = "decodeError" /\ baseVars' = baseVars) =>
          (widget' = widget /\ calls' = calls /\ staleActs' = staleActs
             /\ engines' = engines /\ tasks' = tasks /\ sc' = sc)
     /\ (bev'.cb = "decodeError" /\ attemptVars' = attemptVars) =>
          (base' = base /\ late' = late /\ bEngines' = bEngines
             /\ bTasks' = bTasks /\ bStops' = bStops)]_vars

\* a decode failure in the scanning engine that an attempt started
C15_Witness ==
  /\ wev.cb = "decodeError"
  /\ wev.by # 0
  /\ calls[wev.by].ok = 1
  /\ \E e \in AttemptIds : Scanning(engines, e) /\ engines[e].by = wev.by

(***************************************************************************)
(* Scanner widget with the isCleaningUp flag (src/unnamed/part_001)        *)
(***************************************************************************)
\* what lines 66 and 74 throw
CleaningContainerNotFound ==
  [kind |-> "Error", text |-> {"QR scanner container not found", "not found"}]
ContainerRemoved ==
  [kind |-> "Error", text |-> {"QR scanner container removed during initialization"}]

\* part_001 lines 132-139
cleaningUserFriendlyMessage(err) ==
  LET m == errorMessage(err)
  IN IF "Permission" \in m \/ "NotAllowedError" \in m
       THEN {"Camera permission denied. Please allow camera access and refresh the page."}
     ELSE IF "NotFoundError" \in m \/ "not found" \in m
       THEN {"Scanner initialization failed. Please refresh the page and try again."}
     ELSE IF "NotSupportedError" \in m
       THEN {"Camera not supported in this browser. Please try Chrome or Safari."}
     ELSE m

CUnderway(r) == cTasks[r].pc \notin {"none", "done"}

\* line 154: the cleanup has a scanner to tear down and none is under way
CleanupBegins(c) == c.cleanup /\ c.scanner # 0 /\ ~c.isCleaningUp

\* lines 160-166: the engine is scanning, so the cleanup awaits its stop
CleanupAwaits(c) == CleanupBegins(c) /\ Scanning(cEngines, c.scanner)

\* lines 151-185 up to the first await: clearTimeout, then isCleaningUp is
\* set and stop is called on a scanning engine; with an engine that is not
\* scanning the function runs to its end: clear, null, isCleaningUp false
CleanupSync(c) ==
  IF CleanupAwaits(c) THEN [c EXCEPT !.isCleaningUp = TRUE]
  ELSE IF CleanupBegins(c) THEN [c EXCEPT !.scanner = 0]
  ELSE c

\* line 152: clearTimeout(timer) of the run whose cleanup this is
TimerCleared(c) ==
  [r \in RunIds |->
     IF c.cleanup /\ r = c.runs /\ cTasks[r].pc = "timer"
       THEN [NoInit EXCEPT !.pc = "done"]
       ELSE cTasks[r]]

\* the change of props a step is, with what the cleanup did on it: nothing,
\* a stop call it awaits, or the clear of an engine that was not scanning
CleaningEvent(c, change) ==
  [cb |-> change,
   arg |-> IF CleanupAwaits(c) THEN "stop"
           ELSE IF CleanupBegins(c) THEN "cleared"
           ELSE "none",
   by |-> IF CleanupBegins(c) THEN c.scanner ELSE 0,
   src |-> "none"]

\* lines 34-36 and 149: the guard of the effect, then the 100 ms timer of
\* run r
CleaningEffectBody(c, r, timers) ==
  IF ~c.isActive \/ ~c.mounted \/ c.isInitializing \/ c.isCleaningUp
    THEN /\ cleaning' = [c EXCEPT !.cleanup = FALSE]
         /\ cTasks' = timers
    ELSE /\ cleaning' = [c EXCEPT !.cleanup = TRUE, !.runs = r]
         /\ cTasks' = [timers EXCEPT ![r] = [pc |-> "timer", e |-> 0]]

\* lines 34-186: a dependency of the effect changed: the previous run's
\* cleanup, then the effect with the new props
CleaningRunEffect(active) ==
  /\ cleaning.mounted
  /\ cleaning.runs < MaxRuns
  /\ cEngines' = IF CleanupBegins(cleaning) /\ ~CleanupAwaits(cleaning)
                   THEN Cleared(cEngines, cleaning.scanner)
                   ELSE cEngines
  /\ cStop' = IF CleanupAwaits(cleaning) THEN cleaning.scanner ELSE cStop
  /\ CleaningEffectBody([CleanupSync(cleaning) EXCEPT !.isActive = active],
                        cleaning.runs + 1, TimerCleared(cleaning))
  /\ cev' = CleaningEvent(cleaning, IF ~active THEN "deactivated"
                                    ELSE IF cleaning.isActive THEN "rerun"
                                    ELSE "activated")
  /\ UNCHANGED <<mgrVars, attemptVars, baseVars>>

CleaningActivate == ~cleaning.isActive /\ CleaningRunEffect(TRUE)

\* another dependency (fps, qrbox, preferredCamera, a callback) changes
CleaningPropChange == cleaning.isActive /\ CleaningRunEffect(TRUE)

CleaningDeactivate == cleaning.isActive /\ CleaningRunEffect(FALSE)

\* the component unmounts: the cleanup of the last effect run
CleaningUnmount ==
  /\ cleaning.mounted
  /\ cEngines' = IF CleanupBegins(cleaning) /\ ~CleanupAwaits(cleaning)
                   THEN Cleared(cEngines, cleaning.scanner)
                   ELSE cEngines
  /\ cStop' = IF CleanupAwaits(cleaning) THEN cleaning.scanner ELSE cStop
  /\ cleaning' = [CleanupSync(cleaning) EXCEPT !.mounted = FALSE, !.cleanup = FALSE]
  /\ cTasks' = TimerCleared(cleaning)
  /\ cev' = CleaningEvent(cleaning, "unmounted")
  /\ UNCHANGED <<mgrVars, attemptVars, baseVars>>

\* lines 164-180: the stop the cleanup awaited settles: clear whatever
\* scanner.current names by then, null it, isCleaningUp false
CleaningStopDone ==
  /\ cStop # 0
  /\ cEngines' = Cleared(Stopped(cEngines, cStop), cleaning.scanner)
  /\ cleaning' = [cleaning EXCEPT !.scanner = 0, !.isCleaningUp = FALSE]
  /\ cStop' = 0
  /\ cev' = NoCall
  /\ UNCHANGED <<mgrVars, attemptVars, baseVars, cTasks>>

\* lines 127-145 for run r: the catch (onScannerInit(false), onScanError)
\* and the finally
CleaningFailed(r, c, thrown) ==
  /\ cleaning' = [c EXCEPT !.isInitializing = FALSE]
  /\ cTasks' = [cTasks EXCEPT ![r] = [NoInit EXCEPT !.pc = "done"]]
  /\ cev' = [cb |-> "onScanError", arg |-> cleaningUserFriendlyMessage(thrown), by |-> r,
             src |-> thrown]

\* lines 109 and 125, then 143-145: onScannerInit(true) and the finally
CleaningStarted(r) ==
  /\ cEngines' = [cEngines EXCEPT ![cTasks[r].e].state = "SCANNING", ![cTasks[r].e].by = r]
  /\ cleaning' = [cleaning EXCEPT !.isInitializing = FALSE]
  /\ cTasks' = [cTasks EXCEPT ![r] = [NoInit EXCEPT !.pc = "done"]]
  /\ cev' = [cb |-> "onScannerInit", arg |-> "true", by |-> r, src |-> "start"]

\* lines 38-70: the timer of run r fires: setIsInitializing(true); an old
\* engine that is scanning is stopped (await), one that is not is cleared
\* and the reference nulled, and the 200 ms wait begins
CleaningTimerFire(r) ==
  /\ cTasks[r].pc = "timer"
  /\ IF Scanning(cEngines, cleaning.scanner)
       THEN /\ cleaning' = [cleaning EXCEPT !.isInitializing = TRUE]
            /\ cTasks' = [cTasks EXCEPT ![r] = [pc |-> "prestop", e |-> cleaning.scanner]]
            /\ UNCHANGED cEngines
       ELSE /\ cleaning' = [cleaning EXCEPT !.isInitializing = TRUE, !.scanner = 0]
            /\ cTasks' = [cTasks EXCEPT ![r] = [pc |-> "settle", e |-> 0]]
            /\ cEngines' = Cleared(cEngines, cleaning.scanner)
  /\ cev' = NoCall
  /\ UNCHANGED <<mgrVars, attemptVars, baseVars, cStop>>

\* lines 48-70: the stop of the old engine has settled, its failure
\* swallowed; clear (its throw and that of a null reference swallowed),
\* null, then the container check of line 65 and the 200 ms wait
CleaningPrestopDone(r) ==
  /\ cTasks[r].pc = "prestop"
  /\ cEngines' = Cleared(Stopped(cEngines, cTasks[r].e), cleaning.scanner)
  /\ IF ~cleaning.mounted
       THEN CleaningFailed(r, [cleaning EXCEPT !.scanner = 0], CleaningContainerNotFound)
       ELSE /\ cleaning' = [cleaning EXCEPT !.scanner = 0]
            /\ cTasks' = [cTasks EXCEPT ![r] = [pc |-> "settle", e |-> 0]]
            /\ cev' = NoCall
  /\ UNCHANGED <<mgrVars, attemptVars, baseVars, cStop>>

\* lines 70-106: the 200 ms wait ends: the container checks, the new
\* engine, start with the preferred camera
CleaningSettleDone(r) ==
  /\ cTasks[r].pc = "settle"
  /\ IF ~cleaning.mounted
       THEN /\ CleaningFailed(r, cleaning, ContainerRemoved)
            /\ UNCHANGED cEngines
       ELSE /\ cEngines' = NewEngine(cEngines, r)
            /\ cleaning' = [cleaning EXCEPT !.scanner = r]
            /\ cTasks' = [cTasks EXCEPT ![r] = [pc |-> "start", e |-> r]]
            /\ cev' = NoCall
  /\ UNCHANGED <<mgrVars, attemptVars, baseVars, cStop>>

\* lines 108-109: the first start resolves
CleaningStartOk(r) ==
  /\ cTasks[r].pc = "start"
  /\ CleaningStarted(r)
  /\ UNCHANGED <<mgrVars, attemptVars, baseVars, cStop>>

\* lines 110-122: the first start rejects, the engine left scanning or not;
\* the fallback start on the engine scanner.current names, a null
\* reference throwing into the catch of 127
CleaningStartFail(r, partial) ==
  /\ cTasks[r].pc = "start"
  /\ cEngines' = IF partial
                   THEN [cEngines EXCEPT ![cTasks[r].e].state = "SCANNING",
                                         ![cTasks[r].e].by = r]
                   ELSE cEngines
  /\ IF cleaning.scanner = 0
       THEN CleaningFailed(r, cleaning, TypeError)
       ELSE /\ cTasks' = [cTasks EXCEPT ![r] = [pc |-> "fallback", e |-> cleaning.scanner]]
            /\ cev' = NoCall
            /\ UNCHANGED cleaning
  /\ UNCHANGED <<mgrVars, attemptVars, baseVars, cStop>>

\* lines 124-125: the fallback start resolves
CleaningFallbackOk(r) ==
  /\ cTasks[r].pc = "fallback"
  /\ CleaningStarted(r)
  /\ UNCHANGED <<mgrVars, attemptVars, baseVars, cStop>>

\* lines 127-145: the fallback start rejects
CleaningFallbackFail(r, partial, err) ==
  /\ cTasks[r].pc = "fallback"
  /\ cEngines' = IF partial
                   THEN [cEngines EXCEPT ![cTasks[r].e].state = "SCANNING",
                                         ![cTasks[r].e].by = r]
                   ELSE cEngines
  /\ CleaningFailed(r, cleaning, err)
  /\ UNCHANGED <<mgrVars, attemptVars, baseVars, cStop>>

\* lines 96-99 and 117-120: the engine decodes a frame
CleaningDecode(e, p) ==
  /\ Scanning(cEngines, e)
  /\ cev' = [cb |-> "onScanSuccess", arg |-> p, by |-> cEngines[e].by, src |-> p]
  /\ UNCHANGED <<mgrVars, attemptVars, baseVars, cleaning, cEngines, cTasks, cStop>>

\* what the parent and the camera do
CleaningEnv ==
  \/ CleaningActivate
  \/ CleaningPropChange
  \/ CleaningDeactivate
  \/ CleaningUnmount
  \/ \E e \in RunIds, p \in Payloads : CleaningDecode(e, p)

\* promises settling and timers firing
CleaningSteps ==
  \/ CleaningStopDone
  \/ \E r \in RunIds : CleaningTimerFire(r)
  \/ \E r \in RunIds : CleaningPrestopDone(r)
  \/ \E r \in RunIds : CleaningSettleDone(r)
  \/ \E r \in RunIds : CleaningStartOk(r)
  \/ \E r \in RunIds, partial \in BOOLEAN : CleaningStartFail(r, partial)
  \/ \E r \in RunIds : CleaningFallbackOk(r)
  \/ \E r \in RunIds, partial \in BOOLEAN, err \in StartRejections :
       CleaningFallbackFail(r, partial, err)

NextCleaning == CleaningEnv \/ CleaningSteps

SpecCleaning == InitCleaning /\ [][NextCleaning]_vars

\* every pending promise settles and every armed timer fires
FairCleaning == SpecCleaning /\ WF_vars(CleaningSteps)

\* C30: when a dependency changes while the engine is scanning, no
\* initialization is under way and isActive stays true, an initialization
\* is eventually under way again (unless the widget is deactivated or
\* unmounted first).
C30_RerunReinitialises ==
  (cev.cb = "rerun" /\ cev.arg = "stop" /\ \A r \in RunIds : ~CUnderway(r))
    ~> (~cleaning.isActive \/ ~cleaning.mounted \/ \E r \in RunIds : CUnderway(r))

(***************************************************************************)
(* Two-step camera stream manager (src/unnamed/part_003, lines 189-282).   *)
(* Lines 190-192 declare the module variables stream, usageCount and       *)
(* isInitializing of the manager again; lines 196-202, 256-257 and 260-274 *)
(* repeat its wait loop, its return and its release.  opt[c] is 1 while    *)
(* the primary request of c is pending and 2 while its fallback is.        *)
(***************************************************************************)
\* lines 204-223: isInitializing = true, the support check, the primary
\* getUserMedia request; without getUserMedia the throw of line 209 and
\* the TypeError of line 245 reach the throw of 249 in the same run
TwoBeginInit(c) ==
  /\ IF mediaSupported
       THEN /\ isInitializing' = TRUE
            /\ pc' = [pc EXCEPT ![c] = "gum"]
            /\ opt' = [opt EXCEPT ![c] = 1]
            /\ ev' = NoEv
            /\ UNCHANGED waitedOn
       ELSE /\ isInitializing' = FALSE
            /\ pc' = [pc EXCEPT ![c] = "idle"]
            /\ ev' = [op |-> "reject", c |-> c, opened |-> {}, before |-> usageCount]
            /\ waitedOn' = [waitedOn EXCEPT ![c] = 0]
            /\ UNCHANGED opt
  /\ UNCHANGED <<stream, usageCount, tracks, nextStream, got>>

\* lines 194-205, the synchronous start of a call
TwoCallGet(c) ==
  /\ UNCHANGED <<attemptVars, baseVars, cleaningVars>>
  /\ pc[c] = "idle"
  /\ IF isInitializing
       THEN BeginWait(c)
       ELSE IF stream # 0 THEN ReturnHeld(c) ELSE TwoBeginInit(c)
  /\ countAtCall' = [countAtCall EXCEPT ![c] =
                       IF pc'[c] \in {"poll", "gum"} THEN usageCount ELSE 0]
  /\ UNCHANGED <<mediaSupported, opened>>

\* lines 198-205: a 100 ms timer of the wait loop fires and finds
\* isInitializing false
TwoPollWake(c) ==
  /\ UNCHANGED <<attemptVars, baseVars, cleaningVars>>
  /\ pc[c] = "poll"
  /\ ~isInitializing
  /\ IF stream # 0 THEN WaiterReturn(c) ELSE TwoBeginInit(c)
  /\ countAtCall' = [countAtCall EXCEPT ![c] =
                       IF pc'[c] = "gum" THEN countAtCall[c] ELSE 0]
  /\ UNCHANGED <<mediaSupported, opened>>

\* lines 223-245 and 251-257: the primary request resolves with a stream
\* object of kind k, which line 223 stores; one without tracks throws at
\* 227 into the catch, which makes the fallback request
TwoPrimaryResolve(c, k) ==
  /\ UNCHANGED <<attemptVars, baseVars, cleaningVars>>
  /\ pc[c] = "gum"
  /\ opt[c] = 1
  /\ nextStream <= MaxStreams
  /\ LET s == nextStream IN
       /\ nextStream' = s + 1
       /\ stream' = s
       /\ tracks' = [tracks EXCEPT ![s] = k]
       /\ IF k = "empty"
            THEN /\ opt' = [opt EXCEPT ![c] = 2]
                 /\ opened' = [opened EXCEPT ![c] = {s}]
                 /\ ev' = NoEv
                 /\ UNCHANGED <<usageCount, isInitializing, pc, got, waitedOn, countAtCall>>
            ELSE /\ AcquireSucceed(c, s)
                 /\ countAtCall' = [countAtCall EXCEPT ![c] = 0]
  /\ UNCHANGED mediaSupported

\* lines 231-245: the primary request rejects, the fallback request
TwoPrimaryReject(c) ==
  /\ UNCHANGED <<attemptVars, baseVars, cleaningVars>>
  /\ pc[c] = "gum"
  /\ opt[c] = 1
  /\ opt' = [opt EXCEPT ![c] = 2]
  /\ ev' = NoEv
  /\ UNCHANGED <<stream, usageCount, isInitializing, mediaSupported, tracks, nextStream,
                 pc, got, countAtCall, opened, waitedOn>>

\* lines 245-246 and 251-257: the fallback request resolves; its stream is
\* stored and returned without a test
TwoFallbackResolve(c, k) ==
  /\ UNCHANGED <<attemptVars, baseVars, cleaningVars>>
  /\ pc[c] = "gum"
  /\ opt[c] = 2
  /\ nextStream <= MaxStreams
  /\ LET s == nextStream IN
       /\ nextStream' = s + 1
       /\ stream' = s
       /\ tracks' = [tracks EXCEPT ![s] = k]
       /\ AcquireSucceed(c, s)
  /\ countAtCall' = [countAtCall EXCEPT ![c] = 0]
  /\ UNCHANGED mediaSupported

\* lines 247-253: the fallback request rejects: the throw of 249 and the
\* finally; stream keeps what line 223 stored
TwoFallbackReject(c) ==
  /\ UNCHANGED <<attemptVars, baseVars, cleaningVars>>
  /\ pc[c] = "gum"
  /\ opt[c] = 2
  /\ isInitializing' = FALSE
  /\ pc' = [pc EXCEPT ![c] = "idle"]
  /\ opt' = [opt EXCEPT ![c] = 0]
  /\ opened' = [opened EXCEPT ![c] = {}]
  /\ waitedOn' = [waitedOn EXCEPT ![c] = 0]
  /\ countAtCall' = [countAtCall EXCEPT ![c] = 0]
  /\ ev' = [op |-> "reject", c |-> c, opened |-> opened[c], before |-> countAtCall[c]]
  /\ UNCHANGED <<stream, usageCount, mediaSupported, tracks, nextStream, got>>

\* lines 260-274, called by a consumer for its successful getCameraStream
TwoRelease(c) == Release(c)

\* lines 260-274, called by a consumer that holds nothing
TwoStrayRelease(c) == StrayRelease(c)

NextTwoStep ==
  \/ \E c \in Callers : TwoCallGet(c)
  \/ \E c \in Callers : TwoPollWake(c)
  \/ \E c \in Callers, k \in StreamKinds : TwoPrimaryResolve(c, k)
  \/ \E c \in Callers : TwoPrimaryReject(c)
  \/ \E c \in Callers, k \in StreamKinds : TwoFallbackResolve(c, k)
  \/ \E c \in Callers : TwoFallbackReject(c)
  \/ \E c \in Callers : TwoRelease(c)
  \/ \E c \in Callers : TwoStrayRelease(c)

SpecTwoStep == InitMgr /\ [][NextTwoStep]_vars

\* C31: a getCameraStream call of the two-step manager that rejects leaves
\* stream null and usageCount as it was.
C31_RejectLeavesNothingBehind ==
  [][ev'.op = "reject" => (stream' = 0 /\ usageCount' = usageCount)]_vars

====
